---- MODULE Spec2Model ----
(***************************************************************************)
(* Email analysis pipeline of gmail-summarizer-project.                    *)
(*                                                                         *)
(*   src/src/llm_service.py  LLMService: gateway (_call_ollama), response  *)
(*                           parser (analyze_email_comprehensive) and the  *)
(*                           keyword / regex heuristics                    *)
(*   src/app.py              process_email_with_llm, process_emails        *)
(*                                                                         *)
(* Python strings are TLA+ strings; they are taken apart character by      *)
(* character with Len, SubSeq and \o, so that substring tests, regular     *)
(* expressions and JSON decoding are computed on the text itself.          *)
(***************************************************************************)
EXTENDS Naturals, Integers, Sequences, FiniteSets, TLC

(***************************************************************************)
(* Python string primitives                                                *)
(***************************************************************************)

\* s[i] (1-based); "" when i is out of range
CharAt(s, i) == IF i >= 1 /\ i <= Len(s) THEN SubSeq(s, i, i) ELSE ""

\* s[i:] (1-based i)
From(s, i) == SubSeq(s, i, Len(s))

\* s.startswith(k, i-1)
StartsWithAt(s, i, k) ==
    /\ i >= 1
    /\ i + Len(k) - 1 <= Len(s)
    /\ SubSeq(s, i, i + Len(k) - 1) = k

\* k in s
Contains(s, k) == \E i \in 1..(Len(s) + 1) : StartsWithAt(s, i, k)

\* s.rfind(k): the 1-based index of the last occurrence, 0 when absent
\* (Python: 0-based index, -1 when absent)
RFind(s, k) ==
    LET at == {j \in 1..(Len(s) + 1) : StartsWithAt(s, j, k)} IN
    IF at = {} THEN 0 ELSE CHOOSE m \in at : \A n \in at : n <= m

\* the value a local name is bound to: The({e : x \in {v}}) is e with x = v
The(S) == CHOOSE x \in S : TRUE

\* the least element of a non-empty set of numbers
MinOf(S) == CHOOSE m \in S : \A n \in S : m <= n

\* f[lo] \o ... \o f[hi] for a function f to strings
RECURSIVE Concat(_, _, _)
Concat(f, lo, hi) ==
    IF lo > hi THEN ""
    ELSE IF lo = hi THEN f[lo]
    ELSE LET mid == (lo + hi) \div 2 IN Concat(f, lo, mid) \o Concat(f, mid + 1, hi)

\* s.find(k, i-1): the first occurrence of k at or after position i, 0 when absent
FindFrom(s, k, i) ==
    LET at == {j \in i..(Len(s) + 1) : StartsWithAt(s, j, k)} IN
    IF at = {} THEN 0 ELSE MinOf(at)

\* s[i:].replace(old, new) for a non-empty old: left to right, non-overlapping
RECURSIVE ReplaceFrom(_, _, _, _)
ReplaceFrom(s, old, new, i) ==
    LET j == FindFrom(s, old, i) IN
    IF j = 0 THEN From(s, i)
    ELSE SubSeq(s, i, j - 1) \o new \o ReplaceFrom(s, old, new, j + Len(old))

\* s.replace(old, new)
Replace(s, old, new) == ReplaceFrom(s, old, new, 1)

\* the characters str.strip() and the regex class \s remove
Whitespace == {" ", "\n", "\t", "\r", "\f"}

\* s.strip()
Strip(s) ==
    LET solid == {i \in 1..Len(s) : CharAt(s, i) \notin Whitespace} IN
    IF solid = {} THEN ""
    ELSE SubSeq(s, MinOf(solid), CHOOSE m \in solid : \A n \in solid : n <= m)

\* re.sub(r'\s+', ' ', s): the first character of a whitespace run becomes a
\* space, the rest of the run is dropped
CollapseWhitespace(s) ==
    Concat([i \in 1..Len(s) |->
              IF CharAt(s, i) \notin Whitespace THEN CharAt(s, i)
              ELSE IF i > 1 /\ CharAt(s, i - 1) \in Whitespace THEN ""
              ELSE " "],
           1, Len(s))

UpperCase == "ABCDEFGHIJKLMNOPQRSTUVWXYZ"
LowerCase == "abcdefghijklmnopqrstuvwxyz"

LowerChar(c) ==
    IF c # "" /\ Contains(UpperCase, c) THEN CharAt(LowerCase, FindFrom(UpperCase, c, 1)) ELSE c

\* s.lower()
Lower(s) == Concat([i \in 1..Len(s) |-> LowerChar(CharAt(s, i))], 1, Len(s))

\* s[i:].split(sep) for a one-character sep
RECURSIVE SplitFrom(_, _, _)
SplitFrom(s, sep, i) ==
    LET j == FindFrom(s, sep, i) IN
    IF j = 0 \/ j > Len(s) THEN <<From(s, i)>>
    ELSE <<SubSeq(s, i, j - 1)>> \o SplitFrom(s, sep, j + 1)

\* s.split(sep)
Split(s, sep) == SplitFrom(s, sep, 1)

\* sep.join(parts)
RECURSIVE Join(_, _)
Join(parts, sep) ==
    IF Len(parts) = 0 THEN ""
    ELSE IF Len(parts) = 1 THEN parts[1]
    ELSE parts[1] \o sep \o Join(Tail(parts), sep)

\* set(seq)
Range(seq) == {seq[i] : i \in 1..Len(seq)}

\* any(keyword in text for keyword in keywords)
AnyIn(keywords, text) == \E i \in 1..Len(keywords) : Contains(text, keywords[i])

(***************************************************************************)
(* Heuristic path: LLMService._simple_categorize_fallback,                 *)
(* _extract_deadlines_regex, _simple_summarize_fallback                    *)
(***************************************************************************)

important_keywords ==
    << "booking confirmation", "flight confirmation", "reservation confirmed",
       "ticket", "itinerary", "travel", "hotel booking", "car rental",
       "meeting", "appointment", "conference", "call",
       "invoice", "bill", "payment", "receipt",
       "project", "assignment", "course", "materials",
       "document", "report", "proposal", "visa", "passport" >>

very_urgent_keywords ==
    << "urgent", "asap", "emergency", "critical", "immediate",
       "today", "tonight", "this morning", "this afternoon",
       "deadline today", "due today", "expires today",
       "server down", "system failure", "security alert",
       "action required immediately" >>

spam_keywords ==
    << "sale", "discount", "offer", "deal", "promotion", "promo",
       "buy now", "shop now", "limited time offer", "exclusive deal",
       "free shipping", "save money", "best price",
       "play", "gear", "equipment", "new products", "collection",
       "new arrivals", "trending", "popular", "bestseller",
       "congratulations", "winner", "prize", "lottery",
       "click here now", "act now", "urgent offer",
       "verify account", "suspended account", "inheritance" >>

marketing_senders == << "marketing@", "noreply@", "no-reply@", "promo@" >>

unimportant_keywords ==
    << "newsletter", "blog", "news", "update", "digest",
       "notification", "reminder", "summary",
       "linkedin", "facebook", "twitter", "social",
       "backup completed", "maintenance" >>

\* text = (subject + " " + content).lower()
HeuristicText(subject, content) == Lower(subject \o " " \o content)

\* mutation of _simple_categorize_fallback: the promotional set is tested first
SpamFirstCategorize(subject, content) ==
    LET text == HeuristicText(subject, content) IN
    IF AnyIn(spam_keywords, text) THEN <<"SPAM">>
    ELSE IF AnyIn(important_keywords, text) THEN <<"IMPORTANT">>
    ELSE IF AnyIn(very_urgent_keywords, text) THEN <<"VERY_IMPORTANT">>
    ELSE IF AnyIn(marketing_senders, text) THEN <<"SPAM">>
    ELSE <<"UNIMPORTANT">>

\* _simple_categorize_fallback(subject, content): a one-element list
simple_categorize_fallback(subject, content) ==
    LET text == HeuristicText(subject, content) IN
    IF AnyIn(important_keywords, text) THEN <<"IMPORTANT">>
    ELSE IF AnyIn(very_urgent_keywords, text) THEN <<"VERY_IMPORTANT">>
    ELSE IF AnyIn(spam_keywords, text) THEN <<"SPAM">>
    ELSE IF AnyIn(marketing_senders, text) THEN <<"SPAM">>
    ELSE IF AnyIn(unimportant_keywords, text) THEN <<"UNIMPORTANT">>
    ELSE <<"UNIMPORTANT">>

Digits == {"0", "1", "2", "3", "4", "5", "6", "7", "8", "9"}
IsDigit(c) == c \in Digits
IsDateSep(c) == c \in {"/", "-"}

\* \d{1,2}[/-] at position i: the position after the separator, 0 on no match.
\* The group is greedy, but the separator is no digit, so at most one of the
\* two lengths can be followed by it.
DayPartEnd(t, i) ==
    IF IsDigit(CharAt(t, i)) /\ IsDigit(CharAt(t, i + 1)) /\ IsDateSep(CharAt(t, i + 2))
    THEN i + 3
    ELSE IF IsDigit(CharAt(t, i)) /\ IsDateSep(CharAt(t, i + 1)) THEN i + 2
    ELSE 0

\* \d{2,4} at position i (greedy): the position after it, 0 on no match
YearPartEnd(t, i) ==
    IF ~(IsDigit(CharAt(t, i)) /\ IsDigit(CharAt(t, i + 1))) THEN 0
    ELSE IF ~IsDigit(CharAt(t, i + 2)) THEN i + 2
    ELSE IF ~IsDigit(CharAt(t, i + 3)) THEN i + 3
    ELSE i + 4

\* \d{1,2}[/-]\d{1,2}[/-]\d{2,4} at position i: the position after the match,
\* 0 on no match
DateEnd(t, i) ==
    LET a == DayPartEnd(t, i)
        b == IF a = 0 THEN 0 ELSE DayPartEnd(t, a)
    IN  IF b = 0 THEN 0 ELSE YearPartEnd(t, b)

\* .*?(date) from position i: the start of the first date reachable from i
\* without crossing a newline ('.' does not match "\n"), 0 when there is none
LazyToDate(t, i) ==
    LET at == {d \in i..Len(t) :
                  /\ DateEnd(t, d) # 0
                  /\ \A j \in i..(d - 1) : CharAt(t, j) # "\n"}
    IN  IF at = {} THEN 0 ELSE MinOf(at)

\* .*?k from position i: the start of the first k reachable from i without
\* crossing a newline, 0 when there is none
LazyToWord(t, i, k) ==
    LET at == {w \in i..Len(t) :
                  /\ StartsWithAt(t, w, k)
                  /\ \A j \in i..(w - 1) : CharAt(t, j) # "\n"}
    IN  IF at = {} THEN 0 ELSE MinOf(at)

\* re.findall(k + r'.*?(date)', t) scanning from position i: the leftmost
\* position where the pattern matches, its captured date, then on from the
\* end of that match
RECURSIVE FindAllWordDate(_, _, _)
FindAllWordDate(t, k, i) ==
    LET at == {j \in i..Len(t) :
                  StartsWithAt(t, j, k) /\ LazyToDate(t, j + Len(k)) # 0}
    IN  IF at = {} THEN <<>>
        ELSE LET d == LazyToDate(t, MinOf(at) + Len(k)) IN
             <<SubSeq(t, d, DateEnd(t, d) - 1)>> \o FindAllWordDate(t, k, DateEnd(t, d))

\* re.findall(r'(date).*?deadline', t) scanning from position i
RECURSIVE FindAllDateDeadline(_, _)
FindAllDateDeadline(t, i) ==
    LET at == {j \in i..Len(t) :
                  DateEnd(t, j) # 0 /\ LazyToWord(t, DateEnd(t, j), "deadline") # 0}
    IN  IF at = {} THEN <<>>
        ELSE LET j == MinOf(at)
                 w == LazyToWord(t, DateEnd(t, j), "deadline")
             IN  <<SubSeq(t, j, DateEnd(t, j) - 1)>>
                 \o FindAllDateDeadline(t, w + Len("deadline"))

\* submit.*?by.*?(date) at position j: the start of the captured date, 0 on
\* no match.  If the first "by" after "submit" has no date behind it on the
\* line, no later "by" has one either, so the first "by" decides.
SubmitByDate(t, j) ==
    LET b == IF StartsWithAt(t, j, "submit")
             THEN LazyToWord(t, j + Len("submit"), "by") ELSE 0
    IN  IF b = 0 THEN 0 ELSE LazyToDate(t, b + Len("by"))

\* re.findall(r'submit.*?by.*?(date)', t) scanning from position i
RECURSIVE FindAllSubmitBy(_, _)
FindAllSubmitBy(t, i) ==
    LET at == {j \in i..Len(t) : SubmitByDate(t, j) # 0} IN
    IF at = {} THEN <<>>
    ELSE LET d == SubmitByDate(t, MinOf(at)) IN
         <<SubSeq(t, d, DateEnd(t, d) - 1)>> \o FindAllSubmitBy(t, DateEnd(t, d))

\* the list `deadlines` after the loop over deadline_patterns
DeadlineMatches(subject, content) ==
    LET text == HeuristicText(subject, content) IN
       FindAllWordDate(text, "deadline", 1)
    \o FindAllWordDate(text, "due", 1)
    \o FindAllWordDate(text, "by", 1)
    \o FindAllWordDate(text, "before", 1)
    \o FindAllDateDeadline(text, 1)
    \o FindAllSubmitBy(text, 1)

\* the sequences without repetition whose elements are exactly the set S
ListsOf(S) ==
    {q \in [1..Cardinality(S) -> S] : \A e \in S : \E i \in DOMAIN q : q[i] = e}

\* mutation of _extract_deadlines_regex: the list is returned as collected
RawDeadlineLists(subject, content) == {DeadlineMatches(subject, content)}

\* _extract_deadlines_regex(subject, content): list(set(deadlines)).  The
\* order of a list made from a set of strings is not fixed by the language,
\* so every order is a possible return value.
extract_deadlines_regex(subject, content) ==
    ListsOf(Range(DeadlineMatches(subject, content)))

SummaryCap == 200

\* content.split('.')[:3]
FirstSentences(content) ==
    LET parts == Split(content, ".") IN
    SubSeq(parts, 1, IF Len(parts) < 3 THEN Len(parts) ELSE 3)

\* _simple_summarize_fallback(content)
simple_summarize_fallback(content) ==
    IF content = "" THEN "No content available"
    ELSE LET joined  == Strip(Join(FirstSentences(content), ". "))
             summary == IF Len(joined) > SummaryCap
                        THEN SubSeq(joined, 1, SummaryCap) \o "..."
                        ELSE joined
         IN  IF summary = "" THEN "Unable to generate summary" ELSE summary

(***************************************************************************)
(* json.loads: decoded values carry their Python type                      *)
(***************************************************************************)

JStr(v)  == [t |-> "str",  v |-> v]
JNum(v)  == [t |-> "num",  v |-> v]      \* v: the literal's text
JBool(v) == [t |-> "bool", v |-> v]
JNull    == [t |-> "null"]
JList(v) == [t |-> "list", v |-> v]      \* v: a sequence of values
JDict(v) == [t |-> "dict", v |-> v]      \* v: a function from keys to values

\* the result of a decoding step: the value and the position after it
Decoded(val, next) == [ok |-> TRUE, val |-> val, next |-> next]
\* json.JSONDecodeError
DecodeError == [ok |-> FALSE, val |-> JNull, next |-> 0]

JsonWhitespace == {" ", "\t", "\n", "\r"}
ControlChars   == {"\n", "\t", "\r", "\f"}
HexDigits      == Digits \cup {"a", "b", "c", "d", "e", "f", "A", "B", "C", "D", "E", "F"}
SimpleEscapes  == {"\"", "\\", "/", "b", "f", "n", "r", "t"}

\* the first position at or after i that holds no JSON whitespace
SkipWs(s, i) == MinOf({j \in i..(Len(s) + 1) : CharAt(s, j) \notin JsonWhitespace})

\* the number of consecutive backslashes that end just before position p and
\* start at or after position lo
BackslashRun(s, lo, p) ==
    LET stop == {q \in (lo - 1)..(p - 1) : q = lo - 1 \/ CharAt(s, q) # "\\"} IN
    (p - 1) - (CHOOSE m \in stop : \A n \in stop : n <= m)

\* position p of a string body that starts at lo is the character after an
\* escaping backslash
Escaped(s, lo, p) == BackslashRun(s, lo, p) % 2 = 1

\* the character an escape \c stands for; \b and \uXXXX, which have no TLA+
\* spelling, are accepted and decode to "?"
Unescape(c) ==
    IF c = "n" THEN "\n" ELSE IF c = "t" THEN "\t" ELSE IF c = "r" THEN "\r"
    ELSE IF c = "f" THEN "\f" ELSE IF c \in {"b", "u"} THEN "?" ELSE c

\* position p lies in the four hex digits of a \uXXXX escape
InUnicodeTail(s, lo, p) ==
    \E q \in (p - 4)..(p - 1) : q >= lo /\ CharAt(s, q) = "u" /\ Escaped(s, lo, q)

\* json.decoder.scanstring(s, i): s[i] is the opening quote
ScanString(s, i) ==
    LET lo     == i + 1
        quotes == {j \in lo..Len(s) : CharAt(s, j) = "\"" /\ ~Escaped(s, lo, j)}
        close  == IF quotes = {} THEN 0 ELSE MinOf(quotes)
        valid  == \A p \in lo..(close - 1) :
                     /\ CharAt(s, p) \notin ControlChars
                     /\ Escaped(s, lo, p) =>
                           /\ CharAt(s, p) \in SimpleEscapes \cup {"u"}
                           /\ CharAt(s, p) = "u" =>
                                 \A h \in (p + 1)..(p + 4) :
                                     h < close /\ CharAt(s, h) \in HexDigits
        text   == Concat([p \in lo..(close - 1) |->
                            IF Escaped(s, lo, p) THEN Unescape(CharAt(s, p))
                            ELSE IF CharAt(s, p) = "\\" \/ InUnicodeTail(s, lo, p) THEN ""
                            ELSE CharAt(s, p)],
                         lo, close - 1)
    IN  IF close = 0 \/ ~valid THEN DecodeError ELSE Decoded(JStr(text), close + 1)

\* the end of a maximal run of digits starting at i (i itself when there is none)
DigitsEnd(s, i) == MinOf({j \in i..(Len(s) + 1) : ~IsDigit(CharAt(s, j))})

\* json.scanner NUMBER_RE: (-?(?:0|[1-9]\d*))(\.\d+)?([eE][-+]?\d+)?
ScanNumber(s, i) ==
    LET d    == IF CharAt(s, i) = "-" THEN i + 1 ELSE i
        int  == IF CharAt(s, d) = "0" THEN d + 1
                ELSE IF IsDigit(CharAt(s, d)) THEN DigitsEnd(s, d) ELSE 0
        frac == IF int # 0 /\ CharAt(s, int) = "." /\ IsDigit(CharAt(s, int + 1))
                THEN DigitsEnd(s, int + 1) ELSE int
        sign == IF CharAt(s, frac + 1) \in {"+", "-"} THEN frac + 2 ELSE frac + 1
        exp  == IF int # 0 /\ CharAt(s, frac) \in {"e", "E"} /\ IsDigit(CharAt(s, sign))
                THEN DigitsEnd(s, sign) ELSE frac
    IN  IF int = 0 THEN DecodeError ELSE Decoded(JNum(SubSeq(s, i, exp - 1)), exp)

\* the remaining cases of json.scanner.scan_once: the literals
ScanLiteral(s, i) ==
    IF StartsWithAt(s, i, "true") THEN Decoded(JBool(TRUE), i + 4)
    ELSE IF StartsWithAt(s, i, "false") THEN Decoded(JBool(FALSE), i + 5)
    ELSE IF StartsWithAt(s, i, "null") THEN Decoded(JNull, i + 4)
    ELSE IF StartsWithAt(s, i, "NaN") THEN Decoded(JNum("NaN"), i + 3)
    ELSE IF StartsWithAt(s, i, "Infinity") THEN Decoded(JNum("Infinity"), i + 8)
    ELSE IF StartsWithAt(s, i, "-Infinity") THEN Decoded(JNum("-Infinity"), i + 9)
    ELSE ScanNumber(s, i)

\* dict[key] = val
DictPut(d, key, val) ==
    [k \in (DOMAIN d) \cup {key} |-> IF k = key THEN val ELSE d[k]]

RECURSIVE ScanOnce(_, _)
RECURSIVE ScanMembers(_, _, _)
RECURSIVE ScanElements(_, _, _)

\* json.decoder.JSONObject after the first key's opening quote was found at
\* position i: "key" : value, then either } or , "key" ...
ScanMembers(s, i, acc) ==
    IF CharAt(s, i) # "\"" THEN DecodeError
    ELSE The({
        IF ~key.ok \/ CharAt(s, SkipWs(s, key.next)) # ":" THEN DecodeError
        ELSE The({
            IF ~val.ok THEN DecodeError
            ELSE The({
                IF CharAt(s, after) = "}"
                THEN Decoded(JDict(DictPut(acc, key.val.v, val.val)), after + 1)
                ELSE IF CharAt(s, after) = ","
                     THEN ScanMembers(s, SkipWs(s, after + 1),
                                      DictPut(acc, key.val.v, val.val))
                ELSE DecodeError
              : after \in {SkipWs(s, val.next)}})
          : val \in {ScanOnce(s, SkipWs(s, SkipWs(s, key.next) + 1))}})
      : key \in {ScanString(s, i)}})

\* json.decoder.JSONArray from the first element at position i
ScanElements(s, i, acc) ==
    The({
        IF ~val.ok THEN DecodeError
        ELSE The({
            IF CharAt(s, after) = "]"
            THEN Decoded(JList(Append(acc, val.val)), after + 1)
            ELSE IF CharAt(s, after) = ","
                 THEN ScanElements(s, SkipWs(s, after + 1), Append(acc, val.val))
            ELSE DecodeError
          : after \in {SkipWs(s, val.next)}})
      : val \in {ScanOnce(s, i)}})

\* json.scanner.scan_once(s, i)
ScanOnce(s, i) ==
    IF CharAt(s, i) = "\"" THEN ScanString(s, i)
    ELSE IF CharAt(s, i) = "{"
         THEN IF CharAt(s, SkipWs(s, i + 1)) = "}"
              THEN Decoded(JDict(<<>>), SkipWs(s, i + 1) + 1)
              ELSE ScanMembers(s, SkipWs(s, i + 1), <<>>)
    ELSE IF CharAt(s, i) = "["
         THEN IF CharAt(s, SkipWs(s, i + 1)) = "]"
              THEN Decoded(JList(<<>>), SkipWs(s, i + 1) + 1)
              ELSE ScanElements(s, SkipWs(s, i + 1), <<>>)
    ELSE ScanLiteral(s, i)

\* json.loads(s): one value, whitespace around it, nothing else
JsonLoads(s) ==
    LET val == ScanOnce(s, SkipWs(s, 1)) IN
    IF val.ok /\ SkipWs(s, val.next) = Len(s) + 1 THEN val ELSE DecodeError

(***************************************************************************)
(* Response parser: LLMService.analyze_email_comprehensive, the part after *)
(* the gateway call                                                        *)
(***************************************************************************)

ImportanceLevels == {"VERY_IMPORTANT", "IMPORTANT", "UNIMPORTANT", "SPAM"}

\* Python's None, as a gateway result and as an analysis
None == [kind |-> "none"]
\* an exception other than json.JSONDecodeError leaves the function
Raised == [kind |-> "raise"]
\* a returned dict
Analysis(d) == [kind |-> "analysis", dict |-> d]
\* a gateway result that is a string
Text(s) == [kind |-> "text", text |-> s]

\* bool(v) for a decoded value
Truthy(v) ==
    IF v.t = "str" THEN v.v # ""
    ELSE IF v.t = "num" THEN v.v \notin {"0", "-0"}
    ELSE IF v.t = "bool" THEN v.v
    ELSE IF v.t = "list" THEN Len(v.v) > 0
    ELSE IF v.t = "dict" THEN DOMAIN v.v # {}
    ELSE FALSE

\* mutation of CollapseCompound: the first level written wins
FirstLevelWins(importance) == Split(importance, "|")[1]

\* the if / elif chain over importance.split('|')
CollapseCompound(importance) ==
    LET levels == Range(Split(importance, "|")) IN
    IF "VERY_IMPORTANT" \in levels THEN "VERY_IMPORTANT"
    ELSE IF "IMPORTANT" \in levels THEN "IMPORTANT"
    ELSE IF "UNIMPORTANT" \in levels THEN "UNIMPORTANT"
    ELSE "SPAM"

\* `'|' in importance` followed by importance.split('|'): for a str a
\* substring test; for a list or a dict a membership test, and split is then
\* no attribute of it; for a number, a bool or None the test itself raises
FixImportance(d) ==
    LET importance == d["importance_level"] IN
    IF importance.t = "str"
    THEN IF Contains(importance.v, "|")
         THEN Analysis(DictPut(d, "importance_level", JStr(CollapseCompound(importance.v))))
         ELSE Analysis(d)
    ELSE IF importance.t = "list"
    THEN IF JStr("|") \in Range(importance.v) THEN Raised ELSE Analysis(d)
    ELSE IF importance.t = "dict"
    THEN IF "|" \in DOMAIN importance.v THEN Raised ELSE Analysis(d)
    ELSE Raised

\* the dict built in the except branch
ManualAnalysis(importance) ==
    Analysis([k \in {"importance_level", "summary", "deadlines", "has_deadline",
                     "reasoning", "important_links", "attachments_mentioned"} |->
                IF k = "importance_level" THEN JStr(importance)
                ELSE IF k = "summary" THEN JStr("Failed to parse full analysis")
                ELSE IF k = "has_deadline" THEN JBool(FALSE)
                ELSE IF k = "reasoning" THEN JStr("JSON parsing failed")
                ELSE JList(<<>>)])

ImportanceKey == "\"importance_level\":"

\* "importance_level":\s*"([^"]+)" at position p: the position of the value's
\* opening quote, 0 on no match
ManualMatchAt(s, p) ==
    LET q == IF StartsWithAt(s, p, ImportanceKey)
             THEN MinOf({j \in (p + Len(ImportanceKey))..(Len(s) + 1) :
                            CharAt(s, j) \notin Whitespace})
             ELSE 0
        r == IF q # 0 /\ CharAt(s, q) = "\"" THEN FindFrom(s, "\"", q + 1) ELSE 0
    IN  IF r > q + 1 /\ r <= Len(s) THEN q ELSE 0

\* the except json.JSONDecodeError branch: re.search over the raw result
ManualExtraction(result) ==
    LET at == {p \in 1..Len(result) : ManualMatchAt(result, p) # 0} IN
    IF at = {} THEN None
    ELSE LET q == ManualMatchAt(result, MinOf(at)) IN
         ManualAnalysis(SubSeq(result, q + 1, FindFrom(result, "\"", q + 1) - 1))

\* cleaned_result: strip, then the two escape repairs
CleanedResult(result) ==
    Replace(Replace(Strip(result), "\\_", "_"), "\\n", " ")

\* mutation of JsonSlice: the text is not cut at the first brace
UnslicedJson(cleaned) ==
    IF FindFrom(cleaned, "{", 1) # 0 /\ RFind(cleaned, "}") # 0
    THEN Text(CollapseWhitespace(Replace(cleaned, "\n", " ")))
    ELSE None

\* json_str: cleaned_result[json_start:json_end] with newlines and runs of
\* whitespace made single spaces; None when a brace is missing.  The slice
\* is empty when the last } stands before the first {.
JsonSlice(cleaned) ==
    LET json_start == FindFrom(cleaned, "{", 1)
        json_end   == RFind(cleaned, "}")
    IN  IF json_start # 0 /\ json_end # 0
        THEN Text(CollapseWhitespace(Replace(
                 IF json_start <= json_end THEN SubSeq(cleaned, json_start, json_end)
                 ELSE "", "\n", " ")))
        ELSE None

\* analyze_email_comprehensive from `if result:` on, for the value `result`
\* returned by _call_ollama
ParseResult(result) ==
    IF result.kind # "text" \/ result.text = "" THEN None
    ELSE LET json_str == JsonSlice(CleanedResult(result.text)) IN
         IF json_str.kind = "none" THEN None
         ELSE LET analysis == JsonLoads(json_str.text) IN
              IF ~analysis.ok THEN ManualExtraction(result.text)
              ELSE IF "importance_level" \notin DOMAIN analysis.val.v THEN None
              ELSE FixImportance(analysis.val.v)

(***************************************************************************)
(* State                                                                   *)
(***************************************************************************)

VARIABLES
    route,         \* process_emails: "idle", "saved", "constructed", "responded";
                   \* "direct" when process_email_with_llm is called on its own
    unread,        \* the number of unread messages in the mailbox of the request
    response,      \* what process_emails returned, None before
    is_available,  \* LLMService.is_available: "True", "False"; "unset" before __init__
    pc,            \* the position inside process_email_with_llm
    email,         \* email_data
    phase,         \* the caller of analyze_email_comprehensive: "main" (app.py
                   \* line 85), "categorize", "summarize", "deadlines"
    attempt,       \* the loop variable of _call_ollama
    result,        \* what _call_ollama returned
    analysis,      \* what analyze_email_comprehensive returned
    locals,        \* importance_level, summary, deadlines, has_deadline
    record,        \* what process_email_with_llm returned
    stages,        \* history: the pipeline stages the message went through
    calls,         \* history: the provider calls made for the message
    source,        \* history: where each local came from
    wait,          \* history: the exception and the seconds of the time.sleep the
                   \* _call_ollama in progress made last; NoWait when it made none
    input,         \* the arguments of a function applied on its own
    output         \* its return value

pipeline == <<pc, email, phase, attempt, result, analysis, locals, record,
              stages, calls, source, wait>>
service  == <<route, unread, response, is_available>>
vars     == <<route, unread, response, is_available, pc, email, phase,
              attempt, result, analysis, locals, record, stages, calls, source,
              wait, input, output>>

max_retries == 3

\* time.sleep(2) between two attempts
RetryBackoff == 2

\* the exceptions client.chat raises: a timeout, a rate-limit response
ProviderErrors == {"timeout", "rate_limit"}

NoWait == [cause |-> "none", seconds |-> 0]

MaxUnread == 2

Fields == {"importance_level", "summary", "deadlines", "has_deadline"}

NoLocals == [k \in Fields |-> JNull]
NoSource == [k \in Fields |-> "unset"]

\* email_data dicts handed to the pipeline; the first is the empty dict
NoEmail == [id |-> "", subject |-> "", content |-> "", empty |-> TRUE]
Message(id, subject, content) ==
    [id |-> id, subject |-> subject, content |-> content, empty |-> FALSE]

Messages ==
    { NoEmail,
      Message("m1", "", ""),
      Message("m2", "Invoice", "Pay by 12/05/2025. Due 12-05-2025.") }

\* message contents the provider can return
Responses ==
    { "{\"importance_level\": \"IMPORTANT\", \"summary\": \"Pay invoice\", \"deadlines\": [\"12/05/2025\"], \"has_deadline\": false}",
      "I cannot classify this email.",
      "  ",
      "{\"importance_level\": \"BANANA\", \"summary\": \"\", \"deadlines\": [], \"has_deadline\": false}",
      "{\"importance_level\": 5, \"summary\": \"s\", \"deadlines\": [], \"has_deadline\": false}",
      "{\"importance_level\": \"SPAM\", \"summary\": null, \"deadlines\": [], \"has_deadline\": false}",
      "{\"importance_level\": \"SPAM\", \"summary\": \"s\", \"deadlines\": 5, \"has_deadline\": false}",
      "{\"importance_level\": \"SPAM\"}",
      "{\"importance_level\": \"VERY_IMPORTANT\", \"summary\": \"Reply\", \"deadlines\": [], \"has_deadline\": true}",
      "{\"importance_level\": \"SPAM|IMPORTANT\", \"summary\": \"cut}" }

\* what LLMService.__init__ can meet: client.list() raises; the model is
\* listed and the test chat answers / answers nothing / raises; the model is
\* not listed and another is / none is
Probes == {"list_raises", "model_ok", "test_falsy", "test_raises", "other_model", "no_models"}

PipelineIdle ==
    /\ pc = "idle" /\ email = NoEmail /\ phase = "main" /\ attempt = 0
    /\ result = None /\ analysis = None /\ locals = NoLocals /\ record = None
    /\ stages = <<>> /\ calls = 0 /\ source = NoSource /\ wait = NoWait

ServiceIdle ==
    /\ unread = 0 /\ response = None /\ is_available = "unset"

Init ==
    /\ route = "idle"
    /\ ServiceIdle
    /\ PipelineIdle
    /\ input = None /\ output = None

(***************************************************************************)
(* LLMService.__init__ and process_emails                                  *)
(***************************************************************************)

\* LLMService.__init__: the one place that assigns is_available.  It runs
\* at process_emails line 165, or for a caller that holds its own service.
LLMServiceInit(probe) ==
    /\ route \in {"idle", "saved"}
    /\ is_available = "unset"
    /\ is_available' = IF probe \in {"model_ok", "other_model"} THEN "True" ELSE "False"
    /\ route' = IF route = "saved" THEN "constructed" ELSE "direct"
    /\ UNCHANGED <<unread, response, pipeline, input, output>>

\* process_emails lines 157-161: save_emails([]) and GmailClient(); n unread
\* messages wait in the mailbox.  DATA_FILE is written here and at line 206
\* only and read by the other routes only; it is not part of the state.
ProcessEmailsBegin(n) ==
    /\ route = "idle"
    /\ is_available = "unset"
    /\ route' = "saved"
    /\ unread' = n
    /\ UNCHANGED <<response, is_available, pipeline, input, output>>

\* process_emails line 168: LLMService defines no attribute api_key, so
\* llm_service.api_key raises AttributeError; lines 216-221 turn it into the
\* error response.  Lines 169-214 (the loop over the messages) are never run.
ProcessEmailsApiKey ==
    /\ route = "constructed"
    /\ route' = "responded"
    /\ response' = [status |-> 500, success |-> FALSE, emails |-> 0]
    /\ UNCHANGED <<unread, is_available, pipeline, input, output>>

(***************************************************************************)
(* process_email_with_llm and the LLMService methods it calls              *)
(***************************************************************************)

\* len(v) is defined
HasLen(v) == v.t \in {"str", "list", "dict"}
\* len(v) > 0, for a v that has a length
NonEmpty(v) == Truthy(v)
\* v[:100] is defined
Sliceable(v) == v.t \in {"str", "list"}

\* analysis.get(key, default)
Get(d, key, default) == IF key \in DOMAIN d THEN d[key] ELSE default

\* a list of strings as a decoded value
StrList(seq) == JList([i \in 1..Len(seq) |-> JStr(seq[i])])

\* process_email_with_llm lines 76-82: the empty dict returns None at once
ProcessEmailBegin(m) ==
    /\ route = "direct"
    /\ pc \in {"idle", "done", "raised"}
    /\ email' = m
    /\ phase' = "main"
    /\ attempt' = 0
    /\ result' = None
    /\ analysis' = None
    /\ locals' = NoLocals
    /\ record' = None
    /\ calls' = 0
    /\ source' = NoSource
    /\ wait' = NoWait
    /\ IF m.empty
       THEN pc' = "done" /\ stages' = <<>>
       ELSE pc' = "analyze" /\ stages' = <<"Fetched">>
    /\ UNCHANGED <<service, input, output>>

\* what the three heuristics make of each message, worked out once
HeuristicResult ==
    [m \in Messages |->
        [importance_level |-> simple_categorize_fallback(m.subject, m.content)[1],
         summary          |-> simple_summarize_fallback(m.content),
         deadlines        |-> extract_deadlines_regex(m.subject, m.content)]]

\* what analyze_email_comprehensive makes of each response, worked out once
ResponseAnalysis == [r \in Responses |-> ParseResult(Text(Strip(r)))]

\* response['message']['content'].strip() of each response, worked out once
ResponseText == [r \in Responses |-> Text(Strip(r))]

\* analyze_email_comprehensive lines 197-275 for the value res returned by
\* _call_ollama, parsed being what ParseResult makes of it: the analysis goes
\* back to the caller, or an exception that is no JSONDecodeError leaves the
\* function
AnalyzeReturns(res, parsed) ==
    /\ result' = res
    /\ wait' = NoWait
    /\ IF parsed = Raised
       THEN pc' = "raised" /\ analysis' = None
       ELSE pc' = "returned" /\ analysis' = parsed

\* mutation of AnalyzeBegin: the provider is contacted whatever the flag says
AnalyzeBeginIgnoresFlag ==
    /\ pc = "analyze"
    /\ stages' = IF phase = "main"
                 THEN stages \o <<"Normalized", "Prompted", "ModelCalled">>
                 ELSE stages
    /\ attempt' = 0
    /\ pc' = "call" /\ wait' = NoWait
    /\ UNCHANGED <<service, email, phase, result, analysis, locals, record, calls,
                   source, input, output>>

\* analyze_email_comprehensive lines 97-195: the content is cleaned, the
\* prompt is built and _call_ollama is entered; lines 54-55 return None
\* without a call when the service is not available
AnalyzeBegin ==
    /\ pc = "analyze"
    /\ stages' = IF phase = "main"
                 THEN stages \o <<"Normalized", "Prompted", "ModelCalled">>
                 ELSE stages
    /\ attempt' = 0
    /\ IF is_available = "True"
       THEN pc' = "call" /\ wait' = NoWait /\ UNCHANGED <<result, analysis>>
       ELSE AnalyzeReturns(None, ParseResult(None))
    /\ UNCHANGED <<service, email, phase, locals, record, calls, source, input, output>>

\* mutation of CallRaises: the exception of the last attempt is not caught
CallRaisesPropagates(error) ==
    /\ pc = "call"
    /\ calls' = calls + 1
    /\ IF attempt < max_retries - 1
       THEN /\ attempt' = attempt + 1 /\ pc' = "call"
            /\ wait' = [cause |-> error, seconds |-> RetryBackoff]
            /\ UNCHANGED <<result, analysis>>
       ELSE /\ attempt' = attempt /\ pc' = "raised"
            /\ result' = Raised /\ analysis' = None /\ wait' = NoWait
    /\ UNCHANGED <<service, email, phase, locals, record, stages, source, input, output>>

\* _call_ollama lines 85-91: client.chat raises `error`; whatever it is,
\* sleep RetryBackoff seconds and go round again, or return None after the
\* last attempt
CallRaises(error) ==
    /\ pc = "call"
    /\ calls' = calls + 1
    /\ IF attempt < max_retries - 1
       THEN /\ attempt' = attempt + 1 /\ pc' = "call"
            /\ wait' = [cause |-> error, seconds |-> RetryBackoff]
            /\ UNCHANGED <<result, analysis>>
       ELSE attempt' = attempt /\ AnalyzeReturns(None, ParseResult(None))
    /\ UNCHANGED <<service, email, phase, locals, record, stages, source, input, output>>

\* _call_ollama lines 81-83: a response without message content returns None
CallEmpty ==
    /\ pc = "call"
    /\ calls' = calls + 1
    /\ AnalyzeReturns(None, ParseResult(None))
    /\ UNCHANGED <<service, email, phase, attempt, locals, record, stages, source,
                   input, output>>

\* _call_ollama lines 77-80: the stripped message content is returned
CallReturns(r) ==
    /\ pc = "call"
    /\ calls' = calls + 1
    /\ AnalyzeReturns(ResponseText[r], ResponseAnalysis[r])
    /\ UNCHANGED <<service, email, phase, attempt, locals, record, stages, source,
                   input, output>>

\* process_email_with_llm lines 87-96: the analysis is used; the print of
\* summary[:100] raises for a summary that cannot be sliced
UseAnalysis ==
    /\ pc = "returned" /\ phase = "main"
    /\ analysis.kind = "analysis"
    /\ locals' = [k \in Fields |->
                    Get(analysis.dict, k,
                        IF k = "importance_level" THEN JStr("UNIMPORTANT")
                        ELSE IF k = "summary" THEN JStr("No summary available")
                        ELSE IF k = "deadlines" THEN JList(<<>>)
                        ELSE JBool(FALSE))]
    /\ source' = [k \in Fields |-> IF k \in DOMAIN analysis.dict THEN "model" ELSE "default"]
    /\ stages' = Append(stages, "Parsed")
    /\ pc' = IF Sliceable(locals'.summary) THEN "build" ELSE "raised"
    /\ analysis' = None /\ result' = None /\ attempt' = 0
    /\ UNCHANGED <<service, email, phase, record, calls, wait, input, output>>

\* process_email_with_llm lines 97-99: no analysis; categorize_email is
\* called, and line 279 starts another analysis
FallbackBegin ==
    /\ pc = "returned" /\ phase = "main"
    /\ analysis = None
    /\ stages' = Append(stages, "FallbackClassified")
    /\ phase' = "categorize"
    /\ pc' = "analyze"
    /\ UNCHANGED <<service, email, attempt, result, analysis, locals, record, calls,
                   source, wait, input, output>>

\* categorize_email lines 281-285 and process_email_with_llm lines 100-101;
\* summarize_email line 291 starts the next analysis
CategorizeReturn ==
    /\ pc = "returned" /\ phase = "categorize"
    /\ IF analysis.kind = "analysis" /\ "importance_level" \in DOMAIN analysis.dict
       THEN /\ locals' = [locals EXCEPT !.importance_level = analysis.dict["importance_level"]]
            /\ source' = [source EXCEPT !.importance_level = "model"]
       ELSE /\ locals' = [locals EXCEPT !.importance_level =
                            JStr(HeuristicResult[email].importance_level)]
            /\ source' = [source EXCEPT !.importance_level = "heuristic"]
    /\ phase' = "summarize"
    /\ pc' = "analyze"
    /\ analysis' = None /\ result' = None /\ attempt' = 0
    /\ UNCHANGED <<service, email, record, stages, calls, wait, input, output>>

\* summarize_email lines 293-297 and process_email_with_llm lines 101-102;
\* extract_deadlines line 301 starts the next analysis
SummarizeReturn ==
    /\ pc = "returned" /\ phase = "summarize"
    /\ IF analysis.kind = "analysis" /\ "summary" \in DOMAIN analysis.dict
       THEN /\ locals' = [locals EXCEPT !.summary = analysis.dict["summary"]]
            /\ source' = [source EXCEPT !.summary = "model"]
       ELSE /\ locals' = [locals EXCEPT !.summary =
                            JStr(HeuristicResult[email].summary)]
            /\ source' = [source EXCEPT !.summary = "heuristic"]
    /\ phase' = "deadlines"
    /\ pc' = "analyze"
    /\ analysis' = None /\ result' = None /\ attempt' = 0
    /\ UNCHANGED <<service, email, record, stages, calls, wait, input, output>>

\* extract_deadlines lines 303-309 and process_email_with_llm lines 102-107:
\* len(deadlines) and summary[:100] raise for values without them
DeadlinesReturn ==
    /\ pc = "returned" /\ phase = "deadlines"
    /\ IF /\ analysis.kind = "analysis"
          /\ "deadlines" \in DOMAIN analysis.dict
          /\ Truthy(analysis.dict["deadlines"])
       THEN /\ locals' = [locals EXCEPT !.deadlines = analysis.dict["deadlines"],
                                        !.has_deadline =
                                            IF HasLen(analysis.dict["deadlines"])
                                            THEN JBool(NonEmpty(analysis.dict["deadlines"]))
                                            ELSE JNull]
            /\ source' = [source EXCEPT !.deadlines = "model", !.has_deadline = "model"]
       ELSE \E found \in HeuristicResult[email].deadlines :
            /\ locals' = [locals EXCEPT !.deadlines = StrList(found),
                                        !.has_deadline = JBool(Len(found) > 0)]
            /\ source' = [source EXCEPT !.deadlines = "heuristic",
                                        !.has_deadline = "heuristic"]
    /\ pc' = IF HasLen(locals'.deadlines) /\ Sliceable(locals'.summary)
             THEN "build" ELSE "raised"
    /\ analysis' = None /\ result' = None /\ attempt' = 0
    /\ UNCHANGED <<service, email, phase, record, stages, calls, wait, input, output>>

\* mutation of FinalHasDeadline: the provider's flag alone
ProviderHasDeadline(has_deadline, deadlines) == has_deadline

\* `has_deadline or len(deadlines) > 0`
FinalHasDeadline(has_deadline, deadlines) ==
    IF Truthy(has_deadline) THEN has_deadline ELSE JBool(NonEmpty(deadlines))

\* process_email_with_llm lines 109-119: the returned dict; len(deadlines)
\* raises when has_deadline is falsy and deadlines has no length
BuildRecord ==
    /\ pc = "build"
    /\ IF Truthy(locals.has_deadline) \/ HasLen(locals.deadlines)
       THEN /\ record' = [id               |-> email.id,
                          subject          |-> email.subject,
                          importance_level |-> locals.importance_level,
                          categories       |-> <<locals.importance_level>>,
                          deadlines        |-> locals.deadlines,
                          summary          |-> locals.summary,
                          is_important     |-> locals.importance_level \in
                                                  {JStr("VERY_IMPORTANT"), JStr("IMPORTANT")},
                          has_deadline     |-> FinalHasDeadline(locals.has_deadline,
                                                                locals.deadlines)]
            /\ stages' = Append(stages, "Finalized")
            /\ pc' = "done"
       ELSE /\ record' = record
            /\ stages' = stages
            /\ pc' = "raised"
    /\ UNCHANGED <<service, email, phase, attempt, result, analysis, locals, calls,
                   source, wait, input, output>>

Next ==
    \/ \E probe \in Probes : LLMServiceInit(probe)
    \/ \E n \in 0..MaxUnread : ProcessEmailsBegin(n)
    \/ ProcessEmailsApiKey
    \/ \E m \in Messages : ProcessEmailBegin(m)
    \/ AnalyzeBegin
    \/ \E error \in ProviderErrors : CallRaises(error)
    \/ CallEmpty
    \/ \E r \in Responses : CallReturns(r)
    \/ UseAnalysis
    \/ FallbackBegin
    \/ CategorizeReturn
    \/ SummarizeReturn
    \/ DeadlinesReturn
    \/ BuildRecord

Spec == Init /\ [][Next]_vars

(***************************************************************************)
(* The heuristics applied on their own                                     *)
(***************************************************************************)

MaxContentParts == 2

\* subjects and the phrases a content is made of
HeuristicSubjects ==
    { "",
      "Team sync tomorrow at 10am, please confirm attendance",
      "50% off sale",
      "Submit by 12/05/2025" }

HeuristicPhrases ==
    << "please respond immediately",
       "June 18, 2025",
       "respond today",
       "Deadline 12/05/2025.",
       "due 12-05-2025",
       "before 12/05/2025 deadline",
       "Weekly newsletter.",
       "Invoice attached.",
       "noreply@corp.com" >>

\* the contents: up to MaxContentParts phrases, one space between them
HeuristicContents ==
    { Join([i \in 1..Len(q) |-> HeuristicPhrases[q[i]]], " ") :
        q \in UNION {[1..k -> 1..Len(HeuristicPhrases)] : k \in 0..MaxContentParts} }

HeuristicInputs ==
    {[subject |-> s, content |-> c] : s \in HeuristicSubjects, c \in HeuristicContents}

InitHeuristic ==
    /\ route = "idle"
    /\ ServiceIdle
    /\ PipelineIdle
    /\ input \in HeuristicInputs
    /\ output = None

\* _simple_categorize_fallback(subject, content) is called; the value is the
\* level in the list it returns
Classify ==
    /\ output = None
    /\ output' = [fn    |-> "categorize",
                  value |-> simple_categorize_fallback(input.subject, input.content)[1]]
    /\ UNCHANGED <<service, pipeline, input>>

\* _extract_deadlines_regex(subject, content) is called; `matches` records
\* the list as it stood before list(set(...))
ExtractDeadlines ==
    /\ output = None
    /\ \E found \in extract_deadlines_regex(input.subject, input.content) :
          output' = [fn      |-> "deadlines",
                     value   |-> found,
                     matches |-> DeadlineMatches(input.subject, input.content)]
    /\ UNCHANGED <<service, pipeline, input>>

\* _simple_summarize_fallback(content) is called
Summarize ==
    /\ output = None
    /\ output' = [fn |-> "summary", value |-> simple_summarize_fallback(input.content)]
    /\ UNCHANGED <<service, pipeline, input>>

NextHeuristic ==
    \/ Classify
    \/ ExtractDeadlines
    \/ Summarize

SpecHeuristic == InitHeuristic /\ [][NextHeuristic]_vars

(***************************************************************************)
(* The response parser applied on its own                                  *)
(***************************************************************************)

MaxCompoundParts == 4

\* importance_level values written as levels joined by '|'
CompoundInputs ==
    { [kind |-> "compound", parts |-> q] :
        q \in UNION {[1..k -> ImportanceLevels] : k \in 1..MaxCompoundParts} }

\* a response whose importance_level is the levels joined by '|'
CompoundResponse(parts) ==
    "{\"importance_level\": \"" \o Join(parts, "|")
        \o "\", \"summary\": \"s\", \"deadlines\": [], \"has_deadline\": false}"

\* well-formed JSON objects with the fields of the prompt, token by token.
\* The second has braces inside a string; the third has an escaped backslash
\* before an n, which the repair of line 203 turns into an invalid escape.
ObjectTokens ==
    { << "{", "\"importance_level\"", ":", "\"IMPORTANT\"", ",",
         "\"summary\"", ":", "\"Pay invoice\"", ",",
         "\"deadlines\"", ":", "[", "\"12/05/2025\"", "]", ",",
         "\"has_deadline\"", ":", "true", "}" >>,
      << "{", "\"importance_level\"", ":", "\"SPAM|IMPORTANT\"", ",",
         "\"summary\"", ":", "\"a {b}  c\"", ",",
         "\"deadlines\"", ":", "[", "]", ",",
         "\"has_deadline\"", ":", "false", "}" >>,
      << "{", "\"importance_level\"", ":", "\"UNIMPORTANT\"", ",",
         "\"summary\"", ":", "\"dir C:\\\\new\"", ",",
         "\"deadlines\"", ":", "[", "]", ",",
         "\"has_deadline\"", ":", "false", "}" >> }

\* prose a model puts before and after the object
Prefixes ==
    { "",
      "Here is the analysis:\n",
      "Result {see below}: ",
      "Not \"importance_level\": \"SPAM\" but: " }

Suffixes == {"", "\nHope this helps!", " Thanks :}"}

\* what stands between two tokens of the wrapped object
Separators == {"", "\n", "\n  "}

WrappedInputs ==
    { [kind |-> "wrapped", object |-> o, prefix |-> a, suffix |-> z, sep |-> n] :
        o \in ObjectTokens, a \in Prefixes, z \in Suffixes, n \in Separators }

\* the clean object text and the same object inside prose
CleanText(in)   == Join(in.object, "")
WrappedText(in) == in.prefix \o Join(in.object, in.sep) \o in.suffix

\* _call_ollama line 80 followed by analyze_email_comprehensive from line 197
ParseContent(content) == ParseResult(Text(Strip(content)))

InitParser ==
    /\ route = "idle"
    /\ ServiceIdle
    /\ PipelineIdle
    /\ input \in CompoundInputs \cup WrappedInputs
    /\ output = None

\* the response with a compound importance_level is parsed
ParseCompound ==
    /\ output = None
    /\ input.kind = "compound"
    /\ output' = [fn |-> "compound", analysis |-> ParseContent(CompoundResponse(input.parts))]
    /\ UNCHANGED <<service, pipeline, input>>

\* the object is parsed clean and inside its prose
ParseWrapped ==
    /\ output = None
    /\ input.kind = "wrapped"
    /\ output' = [fn      |-> "wrapped",
                  clean   |-> ParseContent(CleanText(input)),
                  wrapped |-> ParseContent(WrappedText(input))]
    /\ UNCHANGED <<service, pipeline, input>>

NextParser ==
    \/ ParseCompound
    \/ ParseWrapped

SpecParser == InitParser /\ [][NextParser]_vars

(***************************************************************************)
(* Properties                                                              *)
(***************************************************************************)

\* a function was applied on its own and this is its result
Applied(fn) == output # None /\ output.fn = fn

\* process_email_with_llm has ended for a message that is no empty dict
Ended == pc \in {"done", "raised"} /\ ~email.empty

NoDup(seq) == \A i, j \in 1..Len(seq) : i # j => seq[i] # seq[j]

IsPrefix(a, b) == Len(a) <= Len(b) /\ SubSeq(b, 1, Len(a)) = a

\* C1 (totality): whenever process_email_with_llm has ended for a
\* well-formed message, whatever the gateway did, it has returned a record
\* whose summary is a non-empty string and whose importance_level is one of
\* the four levels.
C1_Totality ==
    Ended =>
        /\ pc = "done"
        /\ record # None
        /\ record.summary.t = "str" /\ record.summary.v # ""
        /\ record.importance_level.t = "str"
        /\ record.importance_level.v \in ImportanceLevels

\* C2 (fallback guarantee): when process_emails has responded and the
\* gateway was unavailable for the whole run, the response is the success
\* response and carries one record per unread message.
C2_FallbackGuarantee ==
    (route = "responded" /\ is_available = "False") =>
        /\ response.success
        /\ response.emails = unread

\* C3 (no error is fatal to the batch): no message's analysis lets an
\* exception leave process_email_with_llm into the loop of process_emails,
\* which has no handler of its own, and process_emails never ends in the
\* HTTP 500 outcome.
C3_NoErrorFatal ==
    /\ pc # "raised"
    /\ route = "responded" => response.status # 500

ParsedPath ==
    <<"Fetched", "Normalized", "Prompted", "ModelCalled", "Parsed", "Finalized">>
FallbackPath ==
    <<"Fetched", "Normalized", "Prompted", "ModelCalled", "FallbackClassified", "Finalized">>

\* C4 (per-message state machine): the stages of a message are an initial
\* part of Fetched, Normalized, Prompted, ModelCalled, Parsed or
\* FallbackClassified, Finalized; a returned record is Finalized; and once
\* FallbackClassified was taken no field of the message comes from a model
\* response.
C4_FallbackBypassesModel ==
    /\ IsPrefix(stages, ParsedPath) \/ IsPrefix(stages, FallbackPath)
    /\ (pc = "done" /\ ~email.empty) => stages[Len(stages)] = "Finalized"
    /\ "FallbackClassified" \in Range(stages) =>
           \A k \in Fields : source[k] # "model"

\* the text of the message the heuristics were applied to
InputText == input.subject \o " " \o input.content

\* a concrete date is written with at least one digit
MentionsDate(text) == \E i \in 1..Len(text) : IsDigit(CharAt(text, i))

\* one of the classifier's urgency phrases occurs
DemandsAction(text) == AnyIn(very_urgent_keywords, Lower(text))

\* C5 (tie-break): the heuristic classifier returns VERY_IMPORTANT only for
\* a message that has both a concrete date and an action-demanding phrase.
C5_TieBreak ==
    (Applied("categorize") /\ output.value = "VERY_IMPORTANT") =>
        MentionsDate(InputText) /\ DemandsAction(InputText)

\* C6 (SPAM dominance): a message that contains one of the promotional
\* phrases is classified SPAM by the heuristic classifier, whatever urgency
\* phrase it also contains.
C6_SpamDominance ==
    (Applied("categorize") /\ AnyIn(spam_keywords, Lower(InputText))) =>
        output.value = "SPAM"

\* the total order of the levels
Severity(level) ==
    IF level = "VERY_IMPORTANT" THEN 3
    ELSE IF level = "IMPORTANT" THEN 2
    ELSE IF level = "UNIMPORTANT" THEN 1
    ELSE 0

Highest(levels) == CHOOSE l \in levels : \A m \in levels : Severity(m) <= Severity(l)

\* C7 (compound-level collapse): a response whose importance_level is two
\* or more of the four levels joined by '|', in any combination and order,
\* is parsed to an analysis whose importance_level is the highest level
\* among them, its other fields as decoded.
C7_CompoundCollapse ==
    (Applied("compound") /\ Len(input.parts) >= 2) =>
        /\ output.analysis.kind = "analysis"
        /\ output.analysis.dict =
               [k \in Fields |->
                   IF k = "importance_level" THEN JStr(Highest(Range(input.parts)))
                   ELSE IF k = "summary" THEN JStr("s")
                   ELSE IF k = "deadlines" THEN JList(<<>>)
                   ELSE JBool(FALSE)]

\* a compound of all four levels with the highest written last
C7_Witness ==
    /\ Applied("compound")
    /\ input.parts = <<"SPAM", "UNIMPORTANT", "IMPORTANT", "VERY_IMPORTANT">>
    /\ output.analysis.kind = "analysis"
    /\ output.analysis.dict["importance_level"] = JStr("VERY_IMPORTANT")

\* prose without a brace
PlainProse(text) == ~Contains(text, "{") /\ ~Contains(text, "}")

\* the text is still decodable JSON after the repairs of lines 199-214
Decodable(text) ==
    LET json_str == JsonSlice(CleanedResult(Strip(text))) IN
    json_str.kind = "text" /\ JsonLoads(json_str.text).ok

C9_DeadlineDedup ==
    Applied("deadlines") =>
        /\ NoDup(output.value)
        /\ Range(output.value) = Range(output.matches)

\* a date matched more than once next to the same date in another spelling
C9_Witness ==
    /\ Applied("deadlines")
    /\ Len(output.matches) > Len(output.value)
    /\ {"12/05/2025", "12-05-2025"} \subseteq Range(output.value)

\* C10 (scenario): for the subject "Team sync tomorrow at 10am, please
\* confirm attendance" and an empty body the heuristic classifier returns
\* IMPORTANT.
C10_TeamSyncScenario ==
    ( /\ Applied("categorize")
      /\ input.subject = "Team sync tomorrow at 10am, please confirm attendance"
      /\ input.content = "" ) =>
        output.value = "IMPORTANT"

\* C11 (mandatory-field validation): an analysis the parser returns holds
\* all four of importance_level, summary, deadlines and has_deadline; a
\* decoded object that lacks one is no successful result.
C11_MandatoryFields ==
    analysis.kind = "analysis" => Fields \subseteq DOMAIN analysis.dict

\* C12 (the gateway call never throws): _call_ollama makes at most
\* max_retries attempts and what it hands back is the response text or
\* None, never an exception of the provider client.
C12_GatewayNeverThrows ==
    /\ attempt < max_retries
    /\ result.kind \in {"none", "text"}

\* every attempt of one gateway call raised and the caller got None
C12_Witness ==
    /\ phase = "main" /\ pc = "returned"
    /\ calls = max_retries /\ attempt = max_retries - 1
    /\ result = None

\* C13 (retry on transient failure): an available gateway reports
\* unavailable (returns None) only after its last attempt; an attempt that
\* raised or came back empty before that is followed by another attempt.
C13_RetryOnTransient ==
    (is_available = "True" /\ pc = "returned" /\ result = None) =>
        attempt = max_retries - 1

\* C14 (rate-limit handling): the wait after a rate-limit response is a
\* cooldown longer than the backoff between two retries.
C14_RateLimitCooldown ==
    wait.cause = "rate_limit" => wait.seconds > RetryBackoff

\* C15 (bounded gateway work per message): the provider attempts made for
\* one message are at most the retry count.
C15_BoundedAttempts ==
    calls <= max_retries

\* C16 (the availability flag is write-once): once LLMService.__init__ has
\* set is_available no step changes it, and while it is false no provider
\* attempt is made.
C16_AvailabilityWriteOnce ==
    [][ /\ is_available # "unset" => is_available' = is_available
        /\ is_available = "False" => calls' = 0 ]_vars

\* a message was processed to its record by an unavailable gateway
C16_Witness ==
    /\ is_available = "False"
    /\ pc = "done" /\ record # None
    /\ calls = 0

\* C17 (hasDeadline union): in a returned record has_deadline holds exactly
\* when the has_deadline the record was built from holds or the record's
\* deadlines are not empty.
C17_HasDeadlineUnion ==
    (pc = "done" /\ record # None) =>
        (Truthy(record.has_deadline) <=>
            (Truthy(locals.has_deadline) \/ NonEmpty(record.deadlines)))

\* the model said has_deadline false and gave a deadline: the record says true
C17_Witness ==
    /\ pc = "done" /\ record # None
    /\ source.deadlines = "model"
    /\ locals.has_deadline = JBool(FALSE)
    /\ record.deadlines = StrList(<<"12/05/2025">>)
    /\ record.has_deadline = JBool(TRUE)

\* C18 (heuristic priority order): a business term makes the message
\* IMPORTANT whatever else it holds; without one an urgency term makes it
\* VERY_IMPORTANT; without either a promotional term or a marketing sender
\* makes it SPAM; everything else, informational terms or no term at all, is
\* UNIMPORTANT.
C18_PriorityOrder ==
    Applied("categorize") =>
        LET text      == HeuristicText(input.subject, input.content)
            business  == AnyIn(important_keywords, text)
            urgency   == AnyIn(very_urgent_keywords, text)
            promotion == AnyIn(spam_keywords, text) \/ AnyIn(marketing_senders, text)
        IN  /\ business => output.value = "IMPORTANT"
            /\ (~business /\ urgency) => output.value = "VERY_IMPORTANT"
            /\ (~business /\ ~urgency /\ promotion) => output.value = "SPAM"
            /\ (~business /\ ~urgency /\ ~promotion) => output.value = "UNIMPORTANT"

\* a promotional subject with an urgency phrase and a business term in the
\* body is IMPORTANT
C18_Witness ==
    /\ Applied("categorize")
    /\ input.subject = "50% off sale"
    /\ Contains(input.content, "Invoice attached.")
    /\ Contains(input.content, "respond today")
    /\ output.value = "IMPORTANT"

\* the analysis came from the except json.JSONDecodeError branch
ManuallyExtracted(a) ==
    /\ a.kind = "analysis"
    /\ "reasoning" \in DOMAIN a.dict
    /\ a.dict["reasoning"] = JStr("JSON parsing failed")

\* C19 (manual-extraction last resort): the level of a manually extracted
\* analysis is one of the four levels, never a compound value.
C19_ManualLevelIsEnum ==
    ManuallyExtracted(analysis) =>
        analysis.dict["importance_level"].v \in ImportanceLevels

====
